---- MODULE Spec2Model ----
(***************************************************************************)
(* The tokeniser of "python experiment/Sanskrit_tokeniser.py" and the      *)
(* scanner of its GUI variant ".venv/Sanskrit_tokeniser.py".               *)
(*                                                                         *)
(* A string is a sequence of code points; a code point is written as the   *)
(* one-character string it is, or as "U+XXXX" when it is not ASCII.  A     *)
(* Python index i (0-based) is kept as it is in the code, so the code      *)
(* point at index i of s is s[i + 1].                                      *)
(***************************************************************************)
EXTENDS Integers, Sequences, FiniteSets, TLC

VARIABLES
    entry,        \* the function called: "none", "basic_tokenize", "tokenize", "pipeline_tokenize"
    text,         \* basic_tokenize/tokenize: text, after the normalisation steps
    pc,           \* position in the called function
    i,            \* the scanner's cursor
    tokens,       \* the scanner's token list
    trail,        \* history: what each loop iteration consumed, <<branch, lexeme>>
    sandhi_split, \* pipeline_tokenize's flag
    k,            \* pipeline_tokenize: number of tokens of toks already expanded
    expanded,     \* pipeline_tokenize: the expanded list
    ret,          \* the value returned to the caller
    hashseed,     \* per interpreter process: the string hash seed
    token,        \* simple_sandhi_splits, called directly: its argument
    min_part_len, \* simple_sandhi_splits, called directly: its argument
    result        \* per interpreter process: what the direct call gave

vars == <<entry, text, pc, i, tokens, trail, sandhi_split, k, expanded, ret,
          hashseed, token, min_part_len, result>>

(***************************************************************************)
(* Bounds of the model.                                                    *)
(***************************************************************************)
MaxTextLen == 4
MaxPipeLen == 5
MaxTokenLen == 5
MaxMinPartLen == 2

(***************************************************************************)
(* Code points.                                                            *)
(***************************************************************************)
Visarga == "U+1E25"     \* h with dot below
ADotBelow == "U+1EA1"   \* a with dot below
AMacron == "U+0101"     \* a with macron
CombDot == "U+0323"     \* combining dot below

ScanAlphabet == {" ", "1", ".", "a", Visarga, "-", "_", CombDot}
PipeAlphabet == {" ", "a", Visarga}
PipeEnds == {<<>>, <<"1">>, <<".">>, <<"_">>}
TokenAlphabet == {" ", "a", "h", Visarga}

Strings(A, n) == UNION {[1..m -> A] : m \in 0..n}

ScanTexts == Strings(ScanAlphabet, MaxTextLen)

RECURSIVE Concat(_)
Concat(ss) == IF ss = <<>> THEN <<>> ELSE Head(ss) \o Concat(Tail(ss))

\* str.isspace()
IsSpace(c) == c \in {" ", "\t", "\n"}
\* \d
IsDigit(c) == c \in {"0", "1", "2", "3", "4", "5", "6", "7", "8", "9"}
IsAsciiLetter(c) == c \in {"a", "e", "i", "o", "u", "h", "b", "s"}
\* Ā-ɏ and Ḁ-ỿ
IsExtLatin(c) == c \in {Visarga, ADotBelow, AMacron}
\* [A-Za-zĀ-ɏḀ-ỿ]
IsWordLetter(c) == IsAsciiLetter(c) \/ IsExtLatin(c)
\* \w
IsWordChar(c) == IsWordLetter(c) \/ IsDigit(c) \/ c = "_"

(***************************************************************************)
(* Normalisation.                                                          *)
(***************************************************************************)
Composite(c) == IF c = "a" THEN ADotBelow ELSE Visarga
Composes(c) == c \in {"a", "h"}

\* unicodedata.normalize("NFC", s)
RECURSIVE NFC(_)
NFC(s) ==
    IF Len(s) < 2 THEN s
    ELSE IF s[2] = CombDot /\ Composes(s[1])
         THEN <<Composite(s[1])>> \o NFC(SubSeq(s, 3, Len(s)))
         ELSE <<s[1]>> \o NFC(Tail(s))

\* unicodedata.normalize("NFKD", s)
RECURSIVE NFKD(_)
NFKD(s) ==
    IF s = <<>> THEN <<>>
    ELSE (IF s[1] = Visarga THEN <<"h", CombDot>>
          ELSE IF s[1] = ADotBelow THEN <<"a", CombDot>>
          ELSE IF s[1] = AMacron THEN <<"a", "U+0304">>
          ELSE <<s[1]>>) \o NFKD(Tail(s))

IsCombining(c) == c \in {CombDot, "U+0304"}

RECURSIVE DropCombining(_)
DropCombining(s) ==
    IF s = <<>> THEN <<>>
    ELSE (IF IsCombining(s[1]) THEN <<>> ELSE <<s[1]>>) \o DropCombining(Tail(s))

normalize_text(s) == NFC(s)

strip_diacritics(s) == NFC(DropCombining(NFKD(s)))

gui_strip_diacritics(s) == DropCombining(NFKD(s))

IastMap(c) ==
    IF c \in {AMacron} THEN "a" ELSE IF c = Visarga THEN "h" ELSE c

iast_to_simple_ascii(s) == [j \in 1..Len(s) |-> IastMap(s[j])]

(***************************************************************************)
(* The regular expressions.  Each matcher gives the end index of the match *)
(* that starts at index p, or -1 when there is none.                       *)
(***************************************************************************)
NoMatch == -1

\* the end of the greedy run \d* that starts at p
RECURSIVE DigitsEnd(_, _)
DigitsEnd(s, p) ==
    IF p < Len(s) /\ IsDigit(s[p + 1]) THEN DigitsEnd(s, p + 1) ELSE p

RECURSIVE NumberGroups(_, _)

\* a mutant of NumberGroups: (?:[.,]\d*)*, which takes a trailing separator
NumberGroupsTrailing(s, p) ==
    IF p < Len(s) /\ s[p + 1] \in {".", ","}
    THEN NumberGroups(s, DigitsEnd(s, p + 1))
    ELSE p

\* (?:[.,]\d+)* from p
NumberGroups(s, p) ==
    IF p + 1 < Len(s) /\ s[p + 1] \in {".", ","} /\ IsDigit(s[p + 2])
    THEN NumberGroups(s, DigitsEnd(s, p + 2))
    ELSE p

\* NUMBER_RE.match(s, p)
NumberEnd(s, p) ==
    IF p < Len(s) /\ IsDigit(s[p + 1]) THEN NumberGroups(s, DigitsEnd(s, p + 1))
    ELSE NoMatch

\* the letters a group of WORD_RE takes after a hyphen or apostrophe
GroupLetter(variant, c) ==
    IF variant = "tokenize" THEN IsAsciiLetter(c) ELSE IsWordLetter(c)

RECURSIVE LettersEnd(_, _)
LettersEnd(s, p) ==
    IF p < Len(s) /\ IsWordLetter(s[p + 1]) THEN LettersEnd(s, p + 1) ELSE p

RECURSIVE GroupLettersEnd(_, _, _)
GroupLettersEnd(variant, s, p) ==
    IF p < Len(s) /\ GroupLetter(variant, s[p + 1])
    THEN GroupLettersEnd(variant, s, p + 1) ELSE p

\* (?:[-'][...]+)* from p
RECURSIVE WordGroups(_, _, _)
WordGroups(variant, s, p) ==
    IF p + 1 < Len(s) /\ s[p + 1] \in {"-", "'"} /\ GroupLetter(variant, s[p + 2])
    THEN WordGroups(variant, s, GroupLettersEnd(variant, s, p + 2))
    ELSE p

\* WORD_RE.match(s, p)
WordEnd(variant, s, p) ==
    IF p < Len(s) /\ IsWordLetter(s[p + 1]) THEN WordGroups(variant, s, LettersEnd(s, p + 1))
    ELSE NoMatch

\* a mutant of PunctEnd: a match of no character
PunctEndEmpty(variant, s, p) ==
    IF p < Len(s) /\ ~IsSpace(s[p + 1]) /\ ~IsWordChar(s[p + 1]) THEN p ELSE NoMatch

\* PUNCT_RE.match(s, p)
PunctEnd(variant, s, p) ==
    IF p < Len(s) /\ ~IsSpace(s[p + 1]) /\ ~IsWordChar(s[p + 1])
       /\ (variant = "tokenize" \/ ~IsExtLatin(s[p + 1]))
    THEN p + 1 ELSE NoMatch

\* re.fullmatch(WORD_RE, t)
FullMatchWord(t) == t # <<>> /\ WordEnd("pipeline_tokenize", t, 0) = Len(t)

\* a mutant of Group: the first code point of the match only
GroupFirstOnly(s, p, e) == SubSeq(s, p + 1, p + 1)

\* m.group(0)
Group(s, p, e) == SubSeq(s, p + 1, e)

(***************************************************************************)
(* basic_tokenize and the GUI variant's tokenize.                          *)
(***************************************************************************)
Prepare(raw, normalize, strip_diac, iast_ascii) ==
    LET t1 == IF normalize THEN normalize_text(raw) ELSE raw
        t2 == IF strip_diac THEN strip_diacritics(t1) ELSE t1
    IN  IF iast_ascii THEN iast_to_simple_ascii(t2) ELSE t2

GuiPrepare(raw, strip_diac, ascii_map) ==
    LET t1 == normalize_text(raw)
        t2 == IF strip_diac THEN gui_strip_diacritics(t1) ELSE t1
    IN  IF ascii_map THEN iast_to_simple_ascii(t2) ELSE t2

Enter(name, t, flag) ==
    /\ entry' = name
    /\ text' = t
    /\ pc' = "scan"
    /\ i' = 0
    /\ tokens' = <<>>
    /\ trail' = <<>>
    /\ sandhi_split' = flag
    /\ UNCHANGED <<k, expanded, ret, hashseed, token, min_part_len, result>>

CallBasicTokenize ==
    /\ pc = "idle"
    /\ \E raw \in ScanTexts, normalize, strip_diac, iast_ascii \in BOOLEAN :
        Enter("basic_tokenize", Prepare(raw, normalize, strip_diac, iast_ascii), FALSE)

CallGuiTokenize ==
    /\ pc = "idle"
    /\ \E raw \in ScanTexts, strip_diac, ascii_map \in BOOLEAN :
        Enter("tokenize", GuiPrepare(raw, strip_diac, ascii_map), FALSE)

Looping == pc = "scan" /\ i < Len(text)

Consume(branch, e, emitted) ==
    /\ i' = e
    /\ tokens' = tokens \o emitted
    /\ trail' = Append(trail, <<branch, Group(text, i, e)>>)
    /\ UNCHANGED <<entry, text, pc, sandhi_split, k, expanded, ret, hashseed,
                   token, min_part_len, result>>

ScanSpace ==
    /\ Looping
    /\ IsSpace(text[i + 1])
    /\ Consume("space", i + 1, <<>>)

ScanNumber ==
    /\ Looping
    /\ ~IsSpace(text[i + 1])
    /\ NumberEnd(text, i) # NoMatch
    /\ Consume("number", NumberEnd(text, i), <<Group(text, i, NumberEnd(text, i))>>)

ScanWord ==
    /\ Looping
    /\ ~IsSpace(text[i + 1])
    /\ NumberEnd(text, i) = NoMatch
    /\ WordEnd(entry, text, i) # NoMatch
    /\ Consume("word", WordEnd(entry, text, i), <<Group(text, i, WordEnd(entry, text, i))>>)

ScanPunct ==
    /\ Looping
    /\ ~IsSpace(text[i + 1])
    /\ NumberEnd(text, i) = NoMatch
    /\ WordEnd(entry, text, i) = NoMatch
    /\ PunctEnd(entry, text, i) # NoMatch
    /\ Consume("punct", PunctEnd(entry, text, i), <<Group(text, i, PunctEnd(entry, text, i))>>)

ScanFallback ==
    /\ Looping
    /\ ~IsSpace(text[i + 1])
    /\ NumberEnd(text, i) = NoMatch
    /\ WordEnd(entry, text, i) = NoMatch
    /\ PunctEnd(entry, text, i) = NoMatch
    /\ Consume("fallback", i + 1, <<<<text[i + 1]>>>>)

ScanStep == ScanSpace \/ ScanNumber \/ ScanWord \/ ScanPunct \/ ScanFallback

\* the loop condition fails: return tokens
ReturnTokens ==
    /\ pc = "scan"
    /\ ~(i < Len(text))
    /\ entry \in {"basic_tokenize", "tokenize"}
    /\ pc' = "done"
    /\ ret' = tokens
    /\ UNCHANGED <<entry, text, i, tokens, trail, sandhi_split, k, expanded,
                   hashseed, token, min_part_len, result>>

(***************************************************************************)
(* simple_sandhi_splits.                                                   *)
(***************************************************************************)
VOWELS == {"a", "e", "i", "o", "u", AMacron, "A", "E", "I", "O", "U"}

DefaultMinPartLen == 2

\* the interpreter processes, and the values the string hash seed is drawn from
Procs == {1, 2}
HashSeeds == {0, 1}

\* str.strip()
RECURSIVE LStrip(_)
LStrip(s) == IF s # <<>> /\ IsSpace(Head(s)) THEN LStrip(Tail(s)) ELSE s

RECURSIVE RStrip(_)
RStrip(s) ==
    IF s # <<>> /\ IsSpace(s[Len(s)]) THEN RStrip(SubSeq(s, 1, Len(s) - 1)) ELSE s

Strip(s) == RStrip(LStrip(s))

\* L[-1] or R[0] of an empty string: IndexError
IndexError(L, R) ==
    \/ L = <<>>
    \/ R = <<>>

EndsWith(L, c) == L # <<>> /\ L[Len(L)] = c

Heuristic1(L, R) == L[Len(L)] \in VOWELS /\ R[1] \in VOWELS

Heuristic2(L, R) == L[Len(L)] \notin VOWELS /\ R[1] \in VOWELS

\* a mutant of Heuristic3: (ends with visarga or h) and R starts with a vowel
Heuristic3Parenthesised(L, R) ==
    (EndsWith(L, Visarga) \/ EndsWith(L, "h")) /\ R[1] \in VOWELS

Heuristic3(L, R) == EndsWith(L, Visarga) \/ (EndsWith(L, "h") /\ R[1] \in VOWELS)

\* the candidates one iteration of the loop appends
LoopBody(L, R) ==
    IF Heuristic1(L, R) THEN <<<<L, R>>>>
    ELSE IF Heuristic2(L, R) THEN <<<<L, R>>>>
    ELSE IF Heuristic3(L, R) THEN <<<<L, R>>>>
    ELSE <<>>

\* a mutant of FirstIndex: the range starts one index early
FirstIndexEarly(n, mpl) == mpl - 1

\* range(min_part_len, n - min_part_len + 1)
FirstIndex(n, mpl) == mpl
LastIndex(n, mpl) == n - mpl

\* the loop from index j on
RECURSIVE SplitLoop(_, _, _, _)
SplitLoop(tok, mpl, j, cands) ==
    IF j > LastIndex(Len(tok), mpl) THEN [raised |-> FALSE, candidates |-> cands]
    ELSE LET L == SubSeq(tok, 1, j)
             R == SubSeq(tok, j + 1, Len(tok))
         IN  IF IndexError(L, R) THEN [raised |-> TRUE, candidates |-> cands]
             ELSE SplitLoop(tok, mpl, j + 1, cands \o LoopBody(L, R))

score(split) ==
    LET d == Len(split[1]) - Len(split[2]) IN IF d < 0 THEN -d ELSE d

Range(seq) == {seq[j] : j \in DOMAIN seq}

\* the slot of a candidate in the set's hash table, under a hash seed
HashSlot(seed, c) == IF seed = 0 THEN Len(c[1]) ELSE -Len(c[1])

\* the order in which iterating over a set gives its elements
RECURSIVE SetOrder(_, _)
SetOrder(S, seed) ==
    IF S = {} THEN <<>>
    ELSE LET c == CHOOSE x \in S : \A y \in S : HashSlot(seed, x) <= HashSlot(seed, y)
         IN  <<c>> \o SetOrder(S \ {c}, seed)

\* insert c after every element whose key is not larger (a stable sort)
RECURSIVE InsertByScore(_, _)
InsertByScore(sorted, c) ==
    IF sorted = <<>> THEN <<c>>
    ELSE IF score(Head(sorted)) <= score(c)
         THEN <<Head(sorted)>> \o InsertByScore(Tail(sorted), c)
         ELSE <<c>> \o sorted

\* sorted(seq, key=score)
RECURSIVE SortedByScore(_)
SortedByScore(seq) ==
    IF seq = <<>> THEN <<>>
    ELSE InsertByScore(SortedByScore(SubSeq(seq, 1, Len(seq) - 1)), seq[Len(seq)])

\* sorted(set(candidates), key=score)
SortCandidates(cands, seed) == SortedByScore(SetOrder(Range(cands), seed))

\* the call: raised tells an IndexError, value is what is returned otherwise
simple_sandhi_splits(tok, mpl, seed) ==
    LET t == Strip(tok)
        n == Len(t)
    IN  IF n < mpl * 2 THEN [raised |-> FALSE, candidates |-> <<>>, value |-> <<>>]
        ELSE LET loop == SplitLoop(t, mpl, FirstIndex(n, mpl), <<>>)
             IN  [raised |-> loop.raised,
                  candidates |-> loop.candidates,
                  value |-> IF loop.raised THEN <<>>
                            ELSE SortCandidates(loop.candidates, seed)]

TokenStrings == Strings(TokenAlphabet, MaxTokenLen)

\* what a process holds before and after its call
NotCalled == [called |-> FALSE, raised |-> FALSE, candidates |-> <<>>, value |-> <<>>]

Called(r) ==
    [called |-> TRUE, raised |-> r.raised, candidates |-> r.candidates, value |-> r.value]

\* a direct call in process p
CallSplits(p) ==
    /\ pc = "splits"
    /\ ~result[p].called
    /\ result' = [result EXCEPT ![p] = Called(simple_sandhi_splits(token, min_part_len, hashseed[p]))]
    /\ UNCHANGED <<entry, text, pc, i, tokens, trail, sandhi_split, k, expanded,
                   ret, hashseed, token, min_part_len>>

(***************************************************************************)
(* pipeline_tokenize, in process 1.                                        *)
(***************************************************************************)
\* up to MaxPipeLen letters and spaces, between two optional non-word characters
PipeTexts ==
    {pre \o body \o post :
        pre \in PipeEnds, body \in Strings(PipeAlphabet, MaxPipeLen), post \in PipeEnds}

CallPipeline ==
    /\ pc = "idle"
    /\ \E raw \in PipeTexts, normalize, strip_diac, iast_ascii, flag \in BOOLEAN :
        Enter("pipeline_tokenize", Prepare(raw, normalize, strip_diac, iast_ascii), flag)

ScanDone == pc = "scan" /\ ~(i < Len(text)) /\ entry = "pipeline_tokenize"

\* if not sandhi_split: return toks
ReturnUnsplit ==
    /\ ScanDone
    /\ ~sandhi_split
    /\ pc' = "done"
    /\ ret' = tokens
    /\ UNCHANGED <<entry, text, i, tokens, trail, sandhi_split, k, expanded,
                   hashseed, token, min_part_len, result>>

BeginExpand ==
    /\ ScanDone
    /\ sandhi_split
    /\ pc' = "expand"
    /\ k' = 0
    /\ expanded' = <<>>
    /\ UNCHANGED <<entry, text, i, tokens, trail, sandhi_split, ret,
                   hashseed, token, min_part_len, result>>

\* splits of the token the loop is at
Splits(t) == simple_sandhi_splits(t, DefaultMinPartLen, hashseed[1])

Expanding == pc = "expand" /\ k < Len(tokens)

Expand(out) ==
    /\ expanded' = expanded \o out
    /\ k' = k + 1
    /\ UNCHANGED <<entry, text, pc, i, tokens, trail, sandhi_split, ret,
                   hashseed, token, min_part_len, result>>

\* a mutant of ExpandSplit: without the continue, the token follows its fragments
ExpandSplitNoContinue ==
    /\ Expanding
    /\ FullMatchWord(tokens[k + 1])
    /\ Splits(tokens[k + 1]).value # <<>>
    /\ Expand(Splits(tokens[k + 1]).value[1] \o <<tokens[k + 1]>>)

ExpandSplit ==
    /\ Expanding
    /\ FullMatchWord(tokens[k + 1])
    /\ ~Splits(tokens[k + 1]).raised
    /\ Splits(tokens[k + 1]).value # <<>>
    /\ Expand(Splits(tokens[k + 1]).value[1])

ExpandKeep ==
    /\ Expanding
    /\ \/ ~FullMatchWord(tokens[k + 1])
       \/ /\ ~Splits(tokens[k + 1]).raised
          /\ Splits(tokens[k + 1]).value = <<>>
    /\ Expand(<<tokens[k + 1]>>)

ReturnExpanded ==
    /\ pc = "expand"
    /\ ~(k < Len(tokens))
    /\ pc' = "done"
    /\ ret' = expanded
    /\ UNCHANGED <<entry, text, i, tokens, trail, sandhi_split, k, expanded,
                   hashseed, token, min_part_len, result>>

Init ==
    /\ entry = "none"
    /\ text = <<>>
    /\ pc = "idle"
    /\ i = 0
    /\ tokens = <<>>
    /\ trail = <<>>
    /\ sandhi_split = FALSE
    /\ k = 0
    /\ expanded = <<>>
    /\ ret = <<>>
    /\ hashseed = [p \in Procs |-> 0]
    /\ token = <<>>
    /\ min_part_len = 0
    /\ result = [p \in Procs |-> NotCalled]

Next == CallBasicTokenize \/ CallGuiTokenize \/ ScanStep \/ ReturnTokens

Spec == Init /\ [][Next]_vars

\* pipeline_tokenize
InitPipeline ==
    /\ entry = "none"
    /\ text = <<>>
    /\ pc = "idle"
    /\ i = 0
    /\ tokens = <<>>
    /\ trail = <<>>
    /\ sandhi_split = FALSE
    /\ k = 0
    /\ expanded = <<>>
    /\ ret = <<>>
    /\ hashseed \in [Procs -> HashSeeds]
    /\ hashseed[2] = 0
    /\ token = <<>>
    /\ min_part_len = 0
    /\ result = [p \in Procs |-> NotCalled]

NextPipeline ==
    \/ CallPipeline
    \/ ScanStep
    \/ ReturnUnsplit
    \/ BeginExpand
    \/ ExpandSplit
    \/ ExpandKeep
    \/ ReturnExpanded

SpecPipeline == InitPipeline /\ [][NextPipeline]_vars

\* simple_sandhi_splits called with the same arguments in two processes
InitSplits ==
    /\ entry = "simple_sandhi_splits"
    /\ text = <<>>
    /\ pc = "splits"
    /\ i = 0
    /\ tokens = <<>>
    /\ trail = <<>>
    /\ sandhi_split = FALSE
    /\ k = 0
    /\ expanded = <<>>
    /\ ret = <<>>
    /\ hashseed \in [Procs -> HashSeeds]
    /\ token \in TokenStrings
    /\ min_part_len \in 0..MaxMinPartLen
    /\ result = [p \in Procs |-> NotCalled]

NextSplits == \E p \in Procs : CallSplits(p)

SpecSplits == InitSplits /\ [][NextSplits]_vars

(***************************************************************************)
(* Claims about the scanner, checked under Spec.                           *)
(***************************************************************************)
Branches(tr) == {tr[j][1] : j \in DOMAIN tr}

\* the last iteration's branch, lexeme and start index
LastBranch == trail[Len(trail)][1]
LastLexeme == trail[Len(trail)][2]
LastStart == i - Len(LastLexeme)

\* the tokens written in order, with the skipped whitespace put back where it was
RECURSIVE Rejoin(_, _)
Rejoin(tr, toks) ==
    IF tr = <<>> THEN Concat(toks)
    ELSE IF Head(tr)[1] = "space" THEN Head(tr)[2] \o Rejoin(Tail(tr), toks)
    ELSE IF toks = <<>> THEN <<"missing token">>
    ELSE Head(toks) \o Rejoin(Tail(tr), Tail(toks))

\* C1: the tokens in order, with exactly the whitespace characters the cursor
\* skipped put back between and around them, are the text consumed so far, and
\* the tokens returned rejoin to the whole normalised text: no branch drops,
\* duplicates or reorders a character.
C1_Lossless ==
    /\ Rejoin(trail, tokens) = SubSeq(text, 1, i)
    /\ pc = "done" => Rejoin(trail, ret) = text

C1_Witness ==
    /\ pc = "done"
    /\ entry = "basic_tokenize"
    /\ {"space", "word", "fallback"} \subseteq Branches(trail)
    /\ \E j \in DOMAIN ret : Len(ret[j]) > 1

\* C2: every iteration of the scanner's loop moves the cursor strictly forward,
\* the cursor never exceeds len(text), an iteration is always possible while
\* i < len(text), and the loop is left with i = len(text).
C2_Progress ==
    /\ [](/\ i <= Len(text)
          /\ Len(trail) <= i
          /\ (pc = "scan" /\ i < Len(text) => ENABLED ScanStep)
          /\ (pc = "done" => i = Len(text)))
    /\ [][pc = "scan" /\ pc' = "scan" => i' > i]_vars

C2_Witness ==
    /\ pc = "done"
    /\ i = Len(text)
    /\ Len(trail) >= 3
    /\ Len(trail) < i

IsNumSep(c) == c \in {".", ","}

\* digits, then groups of one separator and at least one digit
NumberShape(lex) ==
    /\ lex # <<>>
    /\ IsDigit(lex[1])
    /\ IsDigit(lex[Len(lex)])
    /\ \A j \in DOMAIN lex : IsDigit(lex[j]) \/ IsNumSep(lex[j])
    /\ \A j \in 1..(Len(lex) - 1) : ~(IsNumSep(lex[j]) /\ IsNumSep(lex[j + 1]))

\* the number that ends at e cannot be made longer
NumberMaximal(s, e) ==
    /\ ~(e < Len(s) /\ IsDigit(s[e + 1]))
    /\ ~(e + 1 < Len(s) /\ IsNumSep(s[e + 1]) /\ IsDigit(s[e + 2]))

\* C8: at a non-whitespace position a digit gives a number token, else a word
\* letter a word token, else a character that is neither whitespace nor a word
\* character a punctuation token, else the single character; a number token is
\* a maximal run of digits and groups of one '.' or ',' plus digits, so that
\* "1.1" is one token, "1." is "1" then ".", and "1a" is "1" then "a".
C8_RulePriority ==
    /\ trail # <<>> =>
        LET c == text[LastStart + 1] IN
        /\ LastLexeme # <<>>
        /\ LastBranch = "space" <=> IsSpace(c)
        /\ LastBranch = "number" <=> ~IsSpace(c) /\ IsDigit(c)
        /\ LastBranch = "word" <=> ~IsSpace(c) /\ ~IsDigit(c) /\ IsWordLetter(c)
        /\ LastBranch = "punct" <=>
              ~IsSpace(c) /\ ~IsDigit(c) /\ ~IsWordLetter(c) /\ ~IsWordChar(c)
        /\ LastBranch = "fallback" <=>
              ~IsSpace(c) /\ ~IsDigit(c) /\ ~IsWordLetter(c) /\ IsWordChar(c)
        /\ LastBranch # "space" => tokens # <<>> /\ tokens[Len(tokens)] = LastLexeme
        /\ LastBranch \in {"punct", "fallback"} => Len(LastLexeme) = 1
        /\ LastBranch = "number" => NumberShape(LastLexeme) /\ NumberMaximal(text, i)
    /\ pc = "done" /\ text = <<"1", ".", "1">> => ret = << <<"1", ".", "1">> >>
    /\ pc = "done" /\ text = <<"1", ".">> => ret = << <<"1">>, <<".">> >>
    /\ pc = "done" /\ text = <<"1", "a", "a">> => ret = << <<"1">>, <<"a", "a">> >>

C8_Witness ==
    /\ pc = "done"
    /\ text = <<"1", ".", "1", ".">>
    /\ ret = << <<"1", ".", "1">>, <<".">> >>

IsJoiner(c) == c \in {"-", "'"}

\* letters of the one class, then groups of one joiner and at least one such letter
WordShape(lex) ==
    /\ lex # <<>>
    /\ IsWordLetter(lex[1])
    /\ IsWordLetter(lex[Len(lex)])
    /\ \A j \in DOMAIN lex : IsWordLetter(lex[j]) \/ IsJoiner(lex[j])
    /\ \A j \in 1..(Len(lex) - 1) : ~(IsJoiner(lex[j]) /\ IsJoiner(lex[j + 1]))

WordMaximal(s, e) ==
    /\ ~(e < Len(s) /\ IsWordLetter(s[e + 1]))
    /\ ~(e + 1 < Len(s) /\ IsJoiner(s[e + 1]) /\ IsWordLetter(s[e + 2]))

\* C9: in basic_tokenize and in the GUI variant's tokenize alike, a word token
\* is the longest run of letters of the one class (ASCII or extended Latin) and
\* groups of one hyphen or apostrophe plus letters of that same class.
C9_UniformWord ==
    trail # <<>> /\ LastBranch = "word" => WordShape(LastLexeme) /\ WordMaximal(text, i)

\* the same, of basic_tokenize alone
C9_BasicWord ==
    entry = "basic_tokenize" => C9_UniformWord

(***************************************************************************)
(* Claims about simple_sandhi_splits, checked under SpecSplits.            *)
(***************************************************************************)
Returned(p) == result[p].called /\ ~result[p].raised

\* u is t without its leading and trailing whitespace
IsStripOf(u, t) ==
    /\ u = <<>> \/ (~IsSpace(u[1]) /\ ~IsSpace(u[Len(u)]))
    /\ \E a, b \in 0..Len(t) :
        /\ a + Len(u) + b = Len(t)
        /\ SubSeq(t, a + 1, a + Len(u)) = u
        /\ \A j \in (1..a) \cup ((Len(t) - b + 1)..Len(t)) : IsSpace(t[j])

C4_Total ==
    \A p \in Procs : result[p].called =>
        /\ ~result[p].raised
        /\ Len(Strip(token)) < 2 * min_part_len => result[p].value = <<>>

\* the part of C4 that holds: no raise when minPartLen >= 1
C4_TotalFromOne ==
    min_part_len >= 1 => C4_Total

\* C5: the candidates returned hold no pair twice and are in ascending order of
\* |len(L) - len(R)|, and of two with the same |len(L) - len(R)| the one with
\* the smaller split index comes first.
C5_Ordered ==
    \A p \in Procs : Returned(p) =>
        LET v == result[p].value IN
        \A a, b \in DOMAIN v : a < b =>
            /\ v[a] # v[b]
            /\ score(v[a]) <= score(v[b])
            /\ score(v[a]) = score(v[b]) => Len(v[a][1]) < Len(v[b][1])

\* the part of C5 that holds: no pair twice, ascending |len(L) - len(R)|
C5_OrderedByScore ==
    \A p \in Procs : Returned(p) =>
        LET v == result[p].value IN
        /\ Range(v) = Range(result[p].candidates)
        /\ \A a, b \in DOMAIN v : a < b => v[a] # v[b] /\ score(v[a]) <= score(v[b])

\* C6: two calls with the same token and the same minPartLen return the same
\* candidates in the same order, so that the first candidate is a function of
\* the token alone.
C6_Deterministic ==
    result[1].called /\ result[2].called =>
        /\ result[1].value = result[2].value
        /\ result[1].value # <<>> => result[1].value[1] = result[2].value[1]

\* the part of C6 that holds: the same under the same hash seed
C6_DeterministicPerSeed ==
    hashseed[1] = hashseed[2] => C6_Deterministic

\* the candidates the loop appended for split index j
AtIndex(cands, j) == {x \in DOMAIN cands : Len(cands[x][1]) = j}

\* C10: for every split index the loop examines, it appends at most one
\* candidate, and appends one exactly when R starts with a vowel or L ends with
\* the visarga; a left part that ends with plain h gets a candidate only where
\* R starts with a vowel.
C10_EffectiveRule ==
    \A p \in Procs : Returned(p) =>
        LET t == Strip(token)
            n == Len(t)
            cands == result[p].candidates
        IN  /\ \A x \in DOMAIN cands :
                /\ Len(cands[x][1]) \in min_part_len..(n - min_part_len)
                /\ cands[x][1] \o cands[x][2] = t
            /\ n >= 2 * min_part_len =>
                \A j \in min_part_len..(n - min_part_len) :
                    /\ Cardinality(AtIndex(cands, j)) <= 1
                    /\ AtIndex(cands, j) # {} <=> (t[j + 1] \in VOWELS \/ t[j] = Visarga)
                    /\ t[j] = "h" /\ AtIndex(cands, j) # {} => t[j + 1] \in VOWELS

C10_Witness ==
    /\ Returned(1)
    /\ min_part_len = 1
    /\ token = <<"a", Visarga, "h", "h", "a">>
    /\ Len(result[1].candidates) = 2

(***************************************************************************)
(* Claims about pipeline_tokenize, checked under SpecPipeline.             *)
(***************************************************************************)
\* the branches that emitted the tokens, in order
RECURSIVE TokenBranches(_)
TokenBranches(tr) ==
    IF tr = <<>> THEN <<>>
    ELSE (IF Head(tr)[1] = "space" THEN <<>> ELSE <<Head(tr)[1]>>) \o TokenBranches(Tail(tr))

\* what the token toks[j] becomes
Expansion(toks, j) ==
    LET cands == simple_sandhi_splits(toks[j], DefaultMinPartLen, hashseed[1]).value
    IN  IF TokenBranches(trail)[j] = "word" /\ cands # <<>>
        THEN <<cands[1][1], cands[1][2]>>
        ELSE <<toks[j]>>

\* C7: without sandhiSplit the pipeline returns the scanner's tokens; with it,
\* the scanner's tokens in order, each word token that has a candidate replaced
\* in place by the two fragments of its first candidate, every other token
\* kept once and unchanged.
C7_Expansion ==
    pc = "done" =>
        /\ Len(TokenBranches(trail)) = Len(tokens)
        /\ \A j \in DOMAIN tokens : FullMatchWord(tokens[j]) <=> TokenBranches(trail)[j] = "word"
        /\ ret = IF sandhi_split
                 THEN Concat([j \in DOMAIN tokens |-> Expansion(tokens, j)])
                 ELSE tokens

C7_Witness ==
    /\ pc = "done"
    /\ sandhi_split
    /\ Len(tokens) = 3
    /\ Len(ret) = 4
    /\ ret[1] = tokens[1]
    /\ ret[2] \o ret[3] = tokens[2]
    /\ ret[4] = tokens[3]

====
